---- MODULE Spec2Model ----
(***************************************************************************)
(* A model of the summit core: the CBBO batch strategy                     *)
(* (src/summit/strategies/cbbo.py), the multi-start helper                 *)
(* multi_start_optimize (same file), the Optimizer wrapper                 *)
(* (src/summit/optimizers.py) and DiscreteVariable (src/summit/domain.py). *)
(* Each component has its own specification; the variables of the other    *)
(* components are held at their initial values.                            *)
(***************************************************************************)
EXTENDS Integers, Sequences, FiniteSets, TLC

VARIABLES
    \* ---- CBBO strategy object ----
    domain,              \* self.domain: sequence of input variables
    transform,           \* self.transform
    categorical_method,  \* self.categorical_method
    all_experiments,     \* self.all_experiments (None or a DataSet)
    iterations,          \* self.iterations
    lastCall,            \* the last operation on the strategy, its arguments and outcome
    supplied,            \* history: rows of every prev_res given to any call since reset
    accepted,            \* history: rows of every prev_res given to a call that passed the q check
    hadHistory,          \* history: the last reset discarded a history that held rows
    round,               \* the design round of the last call: how far it got, its bounds, its m
    \* ---- one multi_start_optimize call ----
    fun,                 \* the objective: point -> value
    x0s,                 \* the starts passed in
    minimize_res,        \* optimize.minimize's result for each start: [x, success]
    x_peaks,             \* cbbo.py:213
    y_peaks,             \* cbbo.py:214
    ibest,               \* cbbo.py:215 (1-based here)
    mso,                 \* the call's position and what it returned
    \* ---- one Optimizer and its optimize calls ----
    opt_pc,              \* where optimize is: idle, searching, returned, raised
    optimizer,           \* which _optimize runs: [kind, nsamples]
    objective,           \* the ObjectiveWrapper of the running call: [counter, previous_x]
    result,              \* the OptimizeResult optimize returned
    passed,              \* history: inputs passed to the wrapped objective in this call
    sub_result,          \* history: the result _optimize itself returned, if it did
    interrupted,         \* history: this call ended by KeyboardInterrupt
    invocations,         \* history: optimize calls started
    \* ---- one DiscreteVariable ----
    levels,              \* self._levels
    constructed,         \* a DiscreteVariable exists
    dvLast,              \* the last operation: [op, level, arg, outcome]
    beforeAdd,           \* history: the set of levels before the last successful add_level
    sequence             \* history: how far add_level(v), remove_level(v), remove_level(v) has got

cbboVars == <<domain, transform, categorical_method, all_experiments, iterations,
              lastCall, supplied, accepted, hadHistory, round>>

msoVars == <<fun, x0s, minimize_res, x_peaks, y_peaks, ibest, mso>>

optVars == <<opt_pc, optimizer, objective, result, passed, sub_result, interrupted,
             invocations>>
dvVars == <<levels, constructed, dvLast, beforeAdd, sequence>>

vars == <<cbboVars, msoVars, optVars, dvVars>>

\* ---------------------------------------------------------------------------
\* Bounds
\* ---------------------------------------------------------------------------
MaxRow  == 2    \* distinct experiment rows
MaxPrev == 1    \* rows in one prev_res
MaxHist == 2    \* rows accumulated in all_experiments
MaxIter == 3    \* calls that increment iterations
MaxQ    == 2    \* largest num_experiments requested
MaxStarts == 2  \* starts in x0s
MaxPoint  == 1  \* points of the search space are 0..MaxPoint
MaxValue  == 1  \* objective values are 0..MaxValue
MaxInput  == 2  \* inputs an objective is called with are 1..MaxInput
MaxCalls  == 2  \* objective calls in one optimize call
MaxNfev   == 2  \* nfev a subclass may put in its result
MaxInvocations == 2  \* optimize calls on one optimizer
MaxLevel  == 3  \* level values are 1..MaxLevel
MaxLevels == 2  \* levels in the list given to the constructor

Rows == 1..MaxRow

SeqsUpTo(S, n) == UNION {[1..k -> S] : k \in 0..n}

\* ---------------------------------------------------------------------------
\* CBBO (src/summit/strategies/cbbo.py)
\* ---------------------------------------------------------------------------
\* Python None for a DataSet-valued slot, and a DataSet holding the given rows.
NoneDS == [isNone |-> TRUE, rows |-> <<>>]
DataSet(rows) == [isNone |-> FALSE, rows |-> rows]

PrevResValues == {NoneDS} \cup {DataSet(s) : s \in SeqsUpTo(Rows, MaxPrev)}
QValues == 0..MaxQ

\* The domains the strategy is constructed over: input variables in order.
ContinuousVariable == [type |-> "continuous", nlevels |-> 0]
CategoricalVariable(n) == [type |-> "categorical", nlevels |-> n]
Domains == { <<ContinuousVariable, ContinuousVariable>>,
             <<ContinuousVariable, CategoricalVariable(2)>> }
Transforms == {"default", "custom"}
CategoricalMethods == {"one-hot", "descriptors"}

NoCall(op) == [op |-> op, q |-> 0, prev_res |-> NoneDS, phase |-> "none",
               outcome |-> "none", npoints |-> 0]

\* cbbo.py:79  if q < 2: raise ValueError
BatchTooSmallMut(q) == q < 1
BatchTooSmall(q) == q < 2

\* cbbo.py:83  if prev_res is None:  (the cold-start branch)
IsColdStartMut(prev_res, all) == prev_res.isNone /\ all.isNone
IsColdStart(prev_res, all) == prev_res.isNone

\* cbbo.py:86  k = num_experiments if num_experiments > 1 else 2
LHSPoints(num_experiments) == IF num_experiments > 1 THEN num_experiments ELSE 2

\* cbbo.py:85  self.iterations += 1   (cold start)
ColdIterations(it) == it + 1

\* cbbo.py:93  self.iterations += 1   (warm round)
WarmIterationsMut(it) == it + 2
WarmIterations(it) == it + 1

\* cbbo.py:89-92  adopt prev_res, or append it to the accumulated history
MergeResultsMut(all, prev_res) == prev_res
MergeResults(all, prev_res) ==
    IF ~prev_res.isNone /\ all.isNone THEN prev_res
    ELSE IF ~prev_res.isNone /\ ~all.isNone THEN DataSet(all.rows \o prev_res.rows)
    ELSE all

\* cbbo.py:161-175  CBBO._get_bounds(): the bounds one variable contributes,
\* one pair per entry: the standardized bounds of a continuous variable, [0, 1]
\* per level of a categorical variable in one-hot mode, and nothing otherwise
VariableBounds(v, method) ==
    IF v.type = "continuous" THEN <<[low |-> "standardized", high |-> "standardized"]>>
    ELSE IF v.type = "categorical" /\ method = "one-hot"
         THEN [i \in 1..v.nlevels |-> [low |-> "0", high |-> "1"]]
    ELSE <<>>

\* cbbo.py:161-175  CBBO._get_bounds(): over the input variables, in order
RECURSIVE get_bounds(_, _)
get_bounds(input_variables, method) ==
    IF input_variables = <<>> THEN <<>>
    ELSE VariableBounds(Head(input_variables), method)
           \o get_bounds(Tail(input_variables), method)

\* cbbo.py:134  bounds = self._get_bounds() * q   (the list repeated q times)
RECURSIVE Repeated(_, _)
Repeated(list, q) == IF q <= 0 THEN <<>> ELSE list \o Repeated(list, q - 1)

\* cbbo.py:140  m = len(self.domain.input_variables)
InputDimension(input_variables) == Len(input_variables)

\* cbbo.py:127-128, 141-144  np.reshape(X, (q, m)) of a vector with one entry
\* per bound (x0s are drawn one coordinate per bound) raises ValueError
\* unless the vector has q * m entries
ReshapeFails(bounds, q, m) == Len(bounds) # q * m

\* Where a warm round may stop: the transform (cbbo.py:97), a surrogate fit
\* whose retries are used up (cbbo.py:109), the multi-start solve
\* (cbbo.py:141), or nowhere.
Stages == {"transform", "fit", "solve", "none"}

NoRound == [failed |-> "none", solved |-> FALSE, bounds |-> <<>>, m |-> 0,
            repeat |-> FALSE]

\* cbbo.py:89-116  no handler surrounds the work of the warm round: what is
\* left in self.all_experiments when it raises is what was committed
OnRaiseMut(committed, before) == before
OnRaise(committed, before) == committed

\* cbbo.py:62-75  the state after CBBO(domain, transform, categorical_method)
CBBOInit ==
    /\ domain \in Domains
    /\ transform \in Transforms
    /\ categorical_method \in CategoricalMethods
    /\ all_experiments = NoneDS
    /\ iterations = 0
    /\ lastCall = NoCall("init")
    /\ supplied = NoneDS
    /\ accepted = NoneDS
    /\ hadHistory = FALSE
    /\ round = NoRound

\* cbbo.py:77-159  CBBO.suggest_experiments(num_experiments, prev_res)
suggest_experiments(num_experiments, prev_res) ==
    /\ iterations < MaxIter
    /\ Len(supplied.rows) + Len(prev_res.rows) <= MaxHist
    /\ UNCHANGED <<domain, transform, categorical_method, hadHistory>>
    /\ UNCHANGED <<msoVars, optVars, dvVars>>
    /\ supplied' = IF prev_res.isNone THEN supplied
                   ELSE DataSet(supplied.rows \o prev_res.rows)
    /\ IF BatchTooSmall(num_experiments)
       THEN /\ lastCall' = [op |-> "suggest", q |-> num_experiments, prev_res |-> prev_res,
                            phase |-> "none", outcome |-> "ValueError", npoints |-> 0]
            /\ round' = NoRound
            /\ UNCHANGED <<all_experiments, iterations, accepted>>
       ELSE /\ accepted' = IF prev_res.isNone THEN accepted
                           ELSE DataSet(accepted.rows \o prev_res.rows)
            /\ IF IsColdStart(prev_res, all_experiments)
               THEN /\ iterations' = ColdIterations(iterations)
                    /\ round' = NoRound
                    /\ UNCHANGED all_experiments
                    /\ lastCall' = [op |-> "suggest", q |-> num_experiments,
                                    prev_res |-> prev_res, phase |-> "cold",
                                    outcome |-> "returned",
                                    npoints |-> LHSPoints(num_experiments)]
               ELSE /\ iterations' = WarmIterations(iterations)
                    \* transform, fit and the solve are external and may raise;
                    \* the solve does raise when the reshape in f_opt fails
                    /\ \E failed \in Stages :
                         LET reached == failed \in {"solve", "none"}
                             bounds == IF reached
                                       THEN Repeated(get_bounds(domain, categorical_method),
                                                     num_experiments)
                                       ELSE <<>>
                             m == IF reached THEN InputDimension(domain) ELSE 0
                             raises == failed # "none"
                             merged == MergeResults(all_experiments, prev_res)
                         IN /\ (reached /\ ReshapeFails(bounds, num_experiments, m))
                                  => failed = "solve"
                            /\ all_experiments' =
                                  IF raises THEN OnRaise(merged, all_experiments)
                                  ELSE merged
                            /\ round' = [failed |-> failed, solved |-> reached,
                                         bounds |-> bounds, m |-> m,
                                         repeat |-> /\ lastCall.op = "suggest"
                                                    /\ lastCall.phase = "warm"
                                                    /\ lastCall.outcome = "raised"
                                                    /\ lastCall.q = num_experiments
                                                    /\ lastCall.prev_res = prev_res]
                            /\ lastCall' =
                                  [op |-> "suggest", q |-> num_experiments,
                                   prev_res |-> prev_res, phase |-> "warm",
                                   outcome |-> IF raises THEN "raised" ELSE "returned",
                                   npoints |-> IF raises THEN 0 ELSE num_experiments]

\* cbbo.py:177-180  CBBO.reset()
resetMut ==
    /\ hadHistory' = (all_experiments.rows # <<>>)
    /\ supplied' = NoneDS
    /\ all_experiments' = NoneDS
    /\ iterations' = iterations
    /\ accepted' = NoneDS
    /\ lastCall' = NoCall("reset")
    /\ round' = NoRound
    /\ UNCHANGED <<domain, transform, categorical_method>>
    /\ UNCHANGED <<msoVars, optVars, dvVars>>
reset ==
    /\ hadHistory' = (all_experiments.rows # <<>>)
    /\ supplied' = NoneDS
    /\ all_experiments' = NoneDS
    /\ iterations' = 0
    /\ accepted' = NoneDS
    /\ lastCall' = NoCall("reset")
    /\ round' = NoRound
    /\ UNCHANGED <<domain, transform, categorical_method>>
    /\ UNCHANGED <<msoVars, optVars, dvVars>>

SuggestStep == \E q \in QValues, p \in PrevResValues : suggest_experiments(q, p)

\* ---------------------------------------------------------------------------
\* multi_start_optimize (src/summit/strategies/cbbo.py)
\* ---------------------------------------------------------------------------
Points == 0..MaxPoint
Values == 0..MaxValue

\* No multi_start_optimize call has been made.
MsoIdle ==
    /\ x0s = <<>> /\ minimize_res = <<>> /\ x_peaks = <<>> /\ y_peaks = <<>>
    /\ ibest = 0
    /\ mso = [pc |-> "idle", x |-> 0, y |-> 0]

\* The objective handed to the call: any real-valued function of the point.
MsoInit == fun \in [Points -> Values] /\ MsoIdle

\* What optimize.minimize(fun, x0, bounds=...) may hand back for each of n
\* starts: a point within the bounds and the solver's success flag.
MinimizeResults(n) == [1..n -> [x : Points, success : BOOLEAN]]

\* numpy.argmin over a non-empty list: one left-to-right scan that replaces
\* the running best only by a strictly smaller value.
RECURSIVE ArgMinFrom(_, _, _)
ArgMinFrom(ys, i, best) ==
    IF i > Len(ys) THEN best
    ELSE IF ys[i] < ys[best] THEN ArgMinFrom(ys, i + 1, i)
    ELSE ArgMinFrom(ys, i + 1, best)

RECURSIVE ArgMinLastFrom(_, _, _)
ArgMinLastFrom(ys, i, best) ==
    IF i > Len(ys) THEN best
    ELSE IF ys[i] <= ys[best] THEN ArgMinLastFrom(ys, i + 1, i)
    ELSE ArgMinLastFrom(ys, i + 1, best)

\* cbbo.py:215  ibest = np.argmin(y_peaks)
argminMut(ys) == ArgMinLastFrom(ys, 2, 1)
argmin(ys) == ArgMinFrom(ys, 2, 1)

\* cbbo.py:213  x_peaks = [optimize.minimize(...).x for x0 in x0s]
XPeaks(res) == [i \in 1..Len(res) |-> res[i].x]

\* cbbo.py:214  y_peaks = [fun(x, *func_args) for x in x_peaks]
YPeaks(f, xs) == [i \in 1..Len(xs) |-> f[xs[i]]]

\* cbbo.py:190-216  multi_start_optimize(fun, x0s, func_args, **kwargs)
multi_start_optimize(starts, res) ==
    /\ x0s' = starts
    /\ minimize_res' = res
    /\ x_peaks' = XPeaks(res)
    /\ y_peaks' = YPeaks(fun, x_peaks')
    /\ IF Len(starts) = 0
       THEN \* np.argmin of an empty list raises ValueError
            /\ ibest' = 0
            /\ mso' = [pc |-> "raised", x |-> 0, y |-> 0]
       ELSE /\ ibest' = argmin(y_peaks')
            /\ mso' = [pc |-> "returned", x |-> x_peaks'[ibest'], y |-> y_peaks'[ibest']]
    /\ UNCHANGED fun
    /\ UNCHANGED <<cbboVars, optVars, dvVars>>

\* One call per behaviour, on any starts and any solver results.
MsoStep ==
    /\ mso.pc = "idle"
    /\ \E n \in 0..MaxStarts :
         \E starts \in [1..n -> Points], res \in MinimizeResults(n) :
           multi_start_optimize(starts, res)

\* ---------------------------------------------------------------------------
\* Optimizer (src/summit/optimizers.py)
\* ---------------------------------------------------------------------------
Inputs == 1..MaxInput
\* Python None where an input or a number is expected, and an attribute that
\* the OptimizeResult does not have.
None == 0
Absent == 0 - 1

OK == "OK"
KeyboardInterruptMessage == "Caught KeyboardInterrupt, returning last good value."

NoResult == [x |-> None, success |-> FALSE, fun |-> Absent, nfev |-> Absent,
             message |-> "none"]

OptIdle ==
    /\ opt_pc = "idle"
    /\ optimizer = [kind |-> "none", nsamples |-> 0]
    /\ objective = [counter |-> 0, previous_x |-> None]
    /\ result = NoResult
    /\ passed = <<>>
    /\ sub_result = NoResult
    /\ interrupted = FALSE
    /\ invocations = 0

\* optimizers.py:17-19, 71-79  an optimizer: MCOptimizer(domain, nsamples), or
\* another subclass of Optimizer with a search of its own.
Optimizers ==
    {[kind |-> "MCOptimizer", nsamples |-> n] : n \in 1..MaxNfev}
      \cup {[kind |-> "Optimizer", nsamples |-> 0]}

\* ObjectiveWrapper(objectivefx): no call counted, no input seen.
ObjectiveWrapper == [counter |-> 0, previous_x |-> None]

\* ObjectiveWrapper.__call__(x): counts the call and remembers the input.
WrapperCall(w, x) == [counter |-> w.counter + 1, previous_x |-> x]

\* optimizers.py:41  objective = ObjectiveWrapper(objectivefx, ...)
NewObjective(old) == ObjectiveWrapper

\* optimizers.py:48  result.nfev = objective.counter
SetNfevMut(res, w) == res
SetNfev(res, w) == [res EXCEPT !.nfev = w.counter]

\* optimizers.py:45-47  the result built when KeyboardInterrupt is caught
InterruptResultMut(w) ==
    [x |-> None, success |-> FALSE, fun |-> Absent, nfev |-> Absent,
     message |-> KeyboardInterruptMessage]
InterruptResult(w) ==
    [x |-> w.previous_x, success |-> FALSE, fun |-> Absent, nfev |-> Absent,
     message |-> KeyboardInterruptMessage]

\* optimizers.py:94-98  what MCOptimizer._optimize returns
MCResult(x, f, nsamples) ==
    [x |-> x, success |-> TRUE, fun |-> f, nfev |-> nsamples, message |-> OK]

\* What the _optimize of another subclass may return.
SubclassResults ==
    [x : Inputs, success : BOOLEAN, fun : Values, nfev : 0..MaxNfev, message : {OK}]

\* optimizers.py:21-41  optimize is entered and wraps the objective
optimize_begin(o) ==
    /\ opt_pc # "searching"
    /\ invocations < MaxInvocations
    /\ optimizer' = o
    /\ objective' = NewObjective(objective)
    /\ passed' = <<>>
    /\ sub_result' = NoResult
    /\ interrupted' = FALSE
    /\ invocations' = invocations + 1
    /\ opt_pc' = "searching"
    /\ UNCHANGED result
    /\ UNCHANGED <<cbboVars, msoVars, dvVars>>

\* optimizers.py:43, 91  the search calls the wrapped objective
\* (MCOptimizer._optimize calls it once, with all its points)
objective_call(x) ==
    /\ opt_pc = "searching"
    /\ Len(passed) < MaxCalls
    /\ optimizer.kind = "MCOptimizer" => passed = <<>>
    /\ objective' = WrapperCall(objective, x)
    /\ passed' = Append(passed, x)
    /\ UNCHANGED <<opt_pc, optimizer, result, sub_result, interrupted, invocations>>
    /\ UNCHANGED <<cbboVars, msoVars, dvVars>>

\* optimizers.py:43, 48-49  _optimize returns and optimize hands its result on
optimize_return(sub) ==
    /\ opt_pc = "searching"
    /\ optimizer.kind = "MCOptimizer"
         => /\ Len(passed) = 1
            /\ sub = MCResult(sub.x, sub.fun, optimizer.nsamples)
    /\ sub_result' = sub
    /\ result' = SetNfev(sub, objective)
    /\ opt_pc' = "returned"
    /\ UNCHANGED <<optimizer, objective, passed, interrupted, invocations>>
    /\ UNCHANGED <<cbboVars, msoVars, dvVars>>

\* optimizers.py:44-49  KeyboardInterrupt reaches optimize during _optimize
optimize_interrupt ==
    /\ opt_pc = "searching"
    /\ interrupted' = TRUE
    /\ result' = SetNfev(InterruptResult(objective), objective)
    /\ opt_pc' = "returned"
    /\ UNCHANGED <<optimizer, objective, passed, sub_result, invocations>>
    /\ UNCHANGED <<cbboVars, msoVars, dvVars>>

\* optimizers.py:43  any other exception of _optimize leaves optimize uncaught
optimize_raise ==
    /\ opt_pc = "searching"
    /\ opt_pc' = "raised"
    /\ UNCHANGED <<optimizer, objective, result, passed, sub_result, interrupted,
                   invocations>>
    /\ UNCHANGED <<cbboVars, msoVars, dvVars>>

OptBeginStep == \E o \in Optimizers : optimize_begin(o)
OptCallStep == \E x \in Inputs : objective_call(x)
OptReturnStep == \E sub \in SubclassResults : optimize_return(sub)

\* ---------------------------------------------------------------------------
\* DiscreteVariable (src/summit/domain.py)
\* ---------------------------------------------------------------------------
LevelValues == 1..MaxLevel
Range(seq) == {seq[i] : i \in 1..Len(seq)}

NoOp == [op |-> "none", level |-> 0, arg |-> <<>>, outcome |-> "none"]
NoSequence == [stage |-> 0, level |-> 0]

DvIdle ==
    /\ levels = <<>>
    /\ constructed = FALSE
    /\ dvLast = NoOp
    /\ beforeAdd = {}
    /\ sequence = NoSequence

\* Where the sequence add_level(v), remove_level(v), remove_level(v) stands
\* after an operation: stage 1 after an add_level(v) that succeeded, stage 2
\* after the remove_level(v) that follows it directly, stage 3 after the
\* remove_level(v) that follows that one directly.
SequenceAfter(seq, op, level, outcome) ==
    IF op = "add_level" /\ outcome = "ok" THEN [stage |-> 1, level |-> level]
    ELSE IF op = "remove_level" /\ seq.stage \in {1, 2} /\ seq.level = level
         THEN [stage |-> seq.stage + 1, level |-> level]
    ELSE NoSequence

\* domain.py:153  len(list({v for v in levels})) != len(levels)
NotUnique(lv) == Cardinality(Range(lv)) # Len(lv)

\* domain.py:180  if level in self._levels
HasLevelMut(lv, level) == FALSE
HasLevel(lv, level) == \E i \in 1..Len(lv) : lv[i] = level

\* domain.py:198  self._levels.index(level): the first position of the level
\* (1-based here); 0 stands for the ValueError list.index raises
index(lv, level) ==
    IF \E i \in 1..Len(lv) : lv[i] = level
    THEN CHOOSE i \in 1..Len(lv) : lv[i] = level /\ \A j \in 1..(i - 1) : lv[j] # level
    ELSE 0

\* domain.py:149-155  DiscreteVariable(name, description, levels)
DiscreteVariable(lv) ==
    /\ IF NotUnique(lv)
       THEN /\ dvLast' = [op |-> "init", level |-> 0, arg |-> lv, outcome |-> "ValueError"]
            /\ UNCHANGED <<levels, constructed, beforeAdd>>
       ELSE /\ levels' = lv
            /\ constructed' = TRUE
            /\ dvLast' = [op |-> "init", level |-> 0, arg |-> lv, outcome |-> "ok"]
            /\ beforeAdd' = {}
    /\ sequence' = NoSequence
    /\ UNCHANGED <<cbboVars, msoVars, optVars>>

\* domain.py:167-182  DiscreteVariable.add_level(level)
add_level(level) ==
    /\ constructed
    /\ IF HasLevel(levels, level)
       THEN /\ dvLast' = [op |-> "add_level", level |-> level, arg |-> <<>>,
                          outcome |-> "ValueError"]
            /\ UNCHANGED <<levels, beforeAdd>>
       ELSE /\ levels' = Append(levels, level)
            /\ beforeAdd' = Range(levels)
            /\ dvLast' = [op |-> "add_level", level |-> level, arg |-> <<>>,
                          outcome |-> "ok"]
    /\ sequence' = SequenceAfter(sequence, "add_level", level, dvLast'.outcome)
    /\ UNCHANGED constructed
    /\ UNCHANGED <<cbboVars, msoVars, optVars>>

\* domain.py:184-200  DiscreteVariable.remove_level(level): the index of the
\* level is looked up, and nothing is done with it
remove_level(level) ==
    /\ constructed
    /\ IF index(levels, level) # 0
       THEN dvLast' = [op |-> "remove_level", level |-> level, arg |-> <<>>,
                       outcome |-> "ok"]
       ELSE dvLast' = [op |-> "remove_level", level |-> level, arg |-> <<>>,
                       outcome |-> "ValueError"]
    /\ sequence' = SequenceAfter(sequence, "remove_level", level, dvLast'.outcome)
    /\ UNCHANGED <<levels, constructed, beforeAdd>>
    /\ UNCHANGED <<cbboVars, msoVars, optVars>>

DvInitStep == \E lv \in SeqsUpTo(LevelValues, MaxLevels) : DiscreteVariable(lv)
DvAddStep == \E level \in LevelValues : add_level(level)
DvRemoveStep == \E level \in LevelValues : remove_level(level)

\* ---------------------------------------------------------------------------
\* Specifications: one per component, the others idle
\* ---------------------------------------------------------------------------
MsoUnused == fun = [p \in Points |-> 0] /\ MsoIdle

CBBOUnused ==
    /\ domain = <<>> /\ transform = "default" /\ categorical_method = "one-hot"
    /\ all_experiments = NoneDS /\ iterations = 0 /\ lastCall = NoCall("init")
    /\ supplied = NoneDS /\ accepted = NoneDS /\ hadHistory = FALSE
    /\ round = NoRound

Init == CBBOInit /\ MsoUnused /\ OptIdle /\ DvIdle
Next == SuggestStep \/ reset
Spec == Init /\ [][Next]_vars

InitMSO == MsoInit /\ CBBOUnused /\ OptIdle /\ DvIdle
NextMSO == MsoStep
SpecMSO == InitMSO /\ [][NextMSO]_vars

InitOpt == OptIdle /\ CBBOUnused /\ MsoUnused /\ DvIdle
NextOpt == OptBeginStep \/ OptCallStep \/ OptReturnStep \/ optimize_interrupt
             \/ optimize_raise
SpecOpt == InitOpt /\ [][NextOpt]_vars

InitDV == DvIdle /\ CBBOUnused /\ MsoUnused /\ OptIdle
NextDV == DvInitStep \/ DvAddStep \/ DvRemoveStep
SpecDV == InitDV /\ [][NextDV]_vars

\* ---------------------------------------------------------------------------
\* Claims about CBBO
\* ---------------------------------------------------------------------------
\* The step just taken was a suggest_experiments call (a reset or a
\* construction leaves another op in lastCall).
Suggested == lastCall'.op = "suggest"

\* C1: a suggest_experiments call with num_experiments < 2 fails with
\* ValueError whatever the state and whether or not prev_res is given, and
\* leaves all_experiments and iterations as they were.
C1_SmallBatchFails ==
    [][ (Suggested /\ lastCall'.q < 2)
          => /\ lastCall'.outcome = "ValueError"
             /\ all_experiments' = all_experiments
             /\ iterations' = iterations ]_vars

\* C1 witness: num_experiments = 1 with results, on a strategy that already
\* has history and has counted rounds, was rejected.
C1_Witness ==
    /\ lastCall.op = "suggest" /\ lastCall.q = 1
    /\ ~lastCall.prev_res.isNone
    /\ lastCall.outcome = "ValueError"
    /\ all_experiments.rows # <<>> /\ iterations > 0

\* C2 as stated: all_experiments is unset if no call supplied results, and is
\* otherwise the concatenation, in call order, of every prev_res supplied.
C2_Original == all_experiments = supplied

\* C2 amended: all_experiments is unset if no call with num_experiments >= 2
\* supplied results, and is otherwise the concatenation, in call order, of
\* every prev_res supplied to a call with num_experiments >= 2.
C2_HistoryIsConcatenation == all_experiments = accepted

\* C2 witness: a later call appended its row to a different row adopted by
\* an earlier call, and a call without results has run in between or since.
C2_Witness ==
    /\ lastCall.op = "suggest" /\ lastCall.phase = "warm"
    /\ Len(lastCall.prev_res.rows) = 1
    /\ Len(all_experiments.rows) = 2
    /\ all_experiments.rows[1] # all_experiments.rows[2]
    /\ iterations = 3

\* C3 as stated: iterations goes up by exactly one on every
\* suggest_experiments call.
C3_Original == [][ Suggested => iterations' = iterations + 1 ]_vars

\* C3 amended: iterations is 0 after construction, goes up by exactly one on
\* every suggest_experiments call with num_experiments >= 2 (cold or warm),
\* is left alone by a call with num_experiments < 2, and decreases only
\* through reset().
C3_IterationsCount ==
    /\ iterations = 0
    /\ [][ /\ (Suggested /\ lastCall'.q >= 2) => iterations' = iterations + 1
           /\ (Suggested /\ lastCall'.q < 2) => iterations' = iterations
           /\ iterations' < iterations => lastCall'.op = "reset" ]_vars

\* C3 witness: a warm call has followed earlier counted calls.
C3_Witness ==
    /\ lastCall.op = "suggest" /\ lastCall.phase = "warm"
    /\ iterations = 3

\* What reset() does to the state, in any state it is called in.
ResetEffect ==
    lastCall'.op = "reset"
      => /\ all_experiments' = NoneDS
         /\ iterations' = 0
         /\ domain' = domain /\ transform' = transform
         /\ categorical_method' = categorical_method

\* C4 as stated: reset() unsets all_experiments, zeroes iterations and keeps
\* domain, transform and categorical_method; the first suggest_experiments
\* call with results after a reset adopts those results as the whole history.
C4_Original ==
    [][ /\ ResetEffect
        /\ (Suggested /\ supplied.isNone /\ ~lastCall'.prev_res.isNone)
              => all_experiments' = lastCall'.prev_res ]_vars

\* C4 amended: reset() unsets all_experiments, zeroes iterations and keeps
\* domain, transform and categorical_method; the first suggest_experiments
\* call with results and num_experiments >= 2 after a reset adopts those
\* results as the whole history.
C4_ResetClears ==
    [][ /\ ResetEffect
        /\ (Suggested /\ accepted.isNone /\ ~lastCall'.prev_res.isNone
               /\ lastCall'.q >= 2)
              => all_experiments' = lastCall'.prev_res ]_vars

\* C4 witness: a reset discarded a history with rows, and the next results
\* supplied are the whole history.
C4_Witness ==
    /\ hadHistory
    /\ lastCall.op = "suggest" /\ lastCall.phase = "warm"
    /\ lastCall.prev_res.rows # <<>>
    /\ all_experiments = lastCall.prev_res

\* C5 as stated: the cold-start branch is taken only while no results have
\* been supplied; once all_experiments is set, every call with
\* num_experiments >= 2 runs a warm round.
C5_Original ==
    [][ /\ (Suggested /\ lastCall'.phase = "cold") => all_experiments.isNone
        /\ (Suggested /\ lastCall'.q >= 2 /\ ~all_experiments.isNone)
              => lastCall'.phase = "warm" ]_vars

\* C5 amended: the phase is governed by the call's prev_res: a call with
\* num_experiments >= 2 takes the cold-start branch exactly when prev_res is
\* None, also when all_experiments is set; it then returns a design of
\* max(num_experiments, 2) points and leaves the history alone; every call
\* with num_experiments >= 2 that supplies prev_res runs a warm round.
C5_PhaseByPrevRes ==
    [][ (Suggested /\ lastCall'.q >= 2)
          => /\ (lastCall'.phase = "cold") = lastCall'.prev_res.isNone
             /\ (lastCall'.phase = "warm") = ~lastCall'.prev_res.isNone
             /\ lastCall'.phase = "cold"
                   => /\ lastCall'.outcome = "returned"
                      /\ lastCall'.npoints >= 2
                      /\ lastCall'.npoints >= lastCall'.q
                      /\ lastCall'.npoints \in {2, lastCall'.q}
                      /\ all_experiments' = all_experiments ]_vars

\* C5 witness: a cold-start design was returned although history is set.
C5_Witness ==
    /\ lastCall.op = "suggest" /\ lastCall.phase = "cold"
    /\ all_experiments.rows # <<>>

\* C11: in every warm design round that reaches the multi-start solve, the
\* joint bounds list has exactly q * m entries, m being the dimension the
\* batch objective and the final reshape to (q, m) use; for domains with
\* categorical inputs, in one-hot and in descriptors mode, as for purely
\* continuous ones.
C11_BoundsMatchReshape ==
    round.solved => Len(round.bounds) = lastCall.q * round.m

\* C12: a warm call that raises in the transform, in a surrogate fit or in
\* the multi-start solve leaves prev_res merged into all_experiments and
\* iterations incremented; repeating the call with the same prev_res then
\* leaves those rows in the history twice.
C12_NoRollback ==
    [][ (Suggested /\ lastCall'.outcome = "raised")
          => /\ lastCall'.phase = "warm"
             /\ round'.failed \in {"transform", "fit", "solve"}
             /\ iterations' = iterations + 1
             /\ ~all_experiments'.isNone
             /\ all_experiments'.rows =
                  (IF all_experiments.isNone THEN <<>> ELSE all_experiments.rows)
                    \o lastCall'.prev_res.rows
             /\ ( /\ lastCall.op = "suggest" /\ lastCall.outcome = "raised"
                  /\ lastCall.q = lastCall'.q
                  /\ lastCall.prev_res = lastCall'.prev_res )
                => LET p == lastCall'.prev_res.rows
                       h == all_experiments'.rows
                   IN /\ Len(h) >= 2 * Len(p)
                      /\ SubSeq(h, Len(h) - 2 * Len(p) + 1, Len(h)) = p \o p ]_vars

\* C12 witness: the same warm call was made twice, raised both times (the
\* second time in a surrogate fit), and its row is in the history twice.
C12_Witness ==
    /\ lastCall.op = "suggest" /\ lastCall.outcome = "raised"
    /\ round.repeat /\ round.failed = "fit"
    /\ Len(lastCall.prev_res.rows) = 1
    /\ all_experiments.rows = lastCall.prev_res.rows \o lastCall.prev_res.rows
    /\ iterations = 2

\* ---------------------------------------------------------------------------
\* Claims about multi_start_optimize
\* ---------------------------------------------------------------------------
\* C6: a call with N >= 1 starts runs one local minimisation per start,
\* evaluates the objective at each result, and returns (x_i, fun(x_i)) where
\* fun(x_i) is the minimum over all N results and i is the smallest index
\* attaining it; results of solves that did not converge are compared like
\* the others; the value returned is the objective at the x returned.
C6_BestOfAllStarts ==
    (mso.pc # "idle" /\ Len(x0s) >= 1)
      => LET N == Len(x0s) IN
         /\ mso.pc = "returned"
         /\ Len(x_peaks) = N /\ Len(y_peaks) = N
         /\ \A i \in 1..N : /\ x_peaks[i] = minimize_res[i].x
                             /\ y_peaks[i] = fun[x_peaks[i]]
         /\ ibest \in 1..N
         /\ \A j \in 1..N : fun[minimize_res[j].x] >= mso.y
         /\ \A j \in 1..(ibest - 1) : fun[minimize_res[j].x] > mso.y
         /\ mso.x = minimize_res[ibest].x
         /\ mso.y = fun[mso.x]

\* C6 witness: two starts ended at different points with the same, minimal
\* value, the first of them did not converge, and it is the one returned.
C6_Witness ==
    /\ mso.pc = "returned"
    /\ \E i, j \in 1..Len(x0s) :
         /\ i < j /\ ibest = i
         /\ x_peaks[i] # x_peaks[j] /\ y_peaks[i] = y_peaks[j]
         /\ ~minimize_res[i].success /\ minimize_res[j].success

\* ---------------------------------------------------------------------------
\* Claims about Optimizer.optimize
\* ---------------------------------------------------------------------------
\* C7: when KeyboardInterrupt occurs while optimize runs _optimize, optimize
\* does not raise: it returns a result with success = False, x the last input
\* passed to the wrapped objective before the interrupt (None if there was
\* none), and the explanatory message.
C7_InterruptReturnsLastInput ==
    interrupted
      => /\ opt_pc = "returned"
         /\ result.success = FALSE
         /\ result.message = KeyboardInterruptMessage
         /\ result.x = IF passed = <<>> THEN None ELSE passed[Len(passed)]

\* C7 witness: the search was interrupted after two calls with different
\* inputs, and the result carries the second.
C7_Witness ==
    /\ interrupted /\ opt_pc = "returned"
    /\ Len(passed) = 2 /\ passed[1] # passed[2]
    /\ result.x = passed[2]

\* C8: every result optimize returns, interrupted or not, has nfev equal to
\* the number of calls of the wrapped objective during that optimize call,
\* whatever nfev _optimize put in its result; the wrapper's count starts from
\* zero in every optimize call.
C8_NfevIsCallCount ==
    /\ opt_pc # "idle" => objective.counter = Len(passed)
    /\ opt_pc = "returned" => result.nfev = Len(passed)

\* C8 witness: in a second optimize call an MCOptimizer with two samples
\* called the objective once and returned; _optimize had put nfev = 2 and the
\* result says 1.
C8_Witness ==
    /\ opt_pc = "returned" /\ ~interrupted
    /\ invocations = 2
    /\ optimizer.kind = "MCOptimizer"
    /\ sub_result.nfev = 2 /\ result.nfev = 1

\* ---------------------------------------------------------------------------
\* Claims about DiscreteVariable
\* ---------------------------------------------------------------------------
\* C9: for a value v not among the levels, add_level(v) followed by
\* remove_level(v) both succeed and leave the set of levels as it was before
\* the add; a second remove_level(v) then fails.
C9_AddThenRemove ==
    /\ sequence.stage = 2
         => /\ dvLast.outcome = "ok"
            /\ Range(levels) = beforeAdd
            /\ sequence.level \notin Range(levels)
    /\ sequence.stage = 3 => dvLast.outcome = "ValueError"

\* C10: the levels never hold a value twice: construction with duplicate
\* levels fails, add_level of a value present fails with ValueError,
\* remove_level of an absent value fails with ValueError, and every failed
\* operation leaves the levels as they were.
C10_LevelsUnique ==
    /\ [](\A i, j \in 1..Len(levels) : levels[i] = levels[j] => i = j)
    /\ [][ /\ ( /\ dvLast'.op = "init"
                /\ \E i, j \in 1..Len(dvLast'.arg) :
                     i # j /\ dvLast'.arg[i] = dvLast'.arg[j] )
                => dvLast'.outcome = "ValueError"
           /\ (dvLast'.op = "add_level" /\ dvLast'.level \in Range(levels))
                => dvLast'.outcome = "ValueError"
           /\ (dvLast'.op = "remove_level" /\ dvLast'.level \notin Range(levels))
                => dvLast'.outcome = "ValueError"
           /\ dvLast'.outcome = "ValueError"
                => levels' = levels /\ constructed' = constructed ]_vars

\* C10 witness: add_level of a level present was rejected on a variable
\* with two levels.
C10_Witness ==
    /\ constructed /\ Len(levels) = 2
    /\ dvLast.op = "add_level" /\ dvLast.outcome = "ValueError"
    /\ dvLast.level = levels[2]
====
